---- MODULE Spec2Model ----
(***************************************************************************)
(* A model of getflake's command line driver, src/cli.rs.                  *)
(*                                                                         *)
(*   Cli::init                fetch_templates, then the five prompts      *)
(*   Cli::run                 the generator, update_project_names, git     *)
(*                            init and the README overwrite                *)
(*   Cli::update_project_names  grep + content rewrite, find + rename      *)
(*                                                                         *)
(* Strings are TLA+ strings and are handled character by character, so     *)
(* str::contains, str::replace, str::trim, str::parse and the path         *)
(* arithmetic are computed and not assumed.  The file system is a          *)
(* function from path strings to entries.  The external programs (nix,     *)
(* grep, find, git) are modelled by their documented behaviour, with every *)
(* outcome the code distinguishes (cannot be spawned, exit status).        *)
(***************************************************************************)
EXTENDS Integers, Sequences, FiniteSets, TLC

VARIABLES
    \* ---- Cli::init
    registry,       \* what `nix flake show --json` answered (fetch_templates)
    templates,      \* the Vec<Template> fetch_templates returned
    template_input, \* the line read by get_template (line 203)
    ipc,            \* position inside Cli::init
    init_result,    \* how Cli::init ended: "none", "Ok", "Err" or "panic"
    \* ---- the fields of Cli
    template, new_or_init, project_name, init_git, clear_readme,
    \* ---- Cli::run and Cli::update_project_names
    flake,          \* the tree the chosen template holds (paths relative to its root)
    fs,             \* the file system: path |-> entry
    pc,             \* position inside run / update_project_names
    file_names,     \* grep's output lines (line 270)
    fi,             \* index of the next line of file_names
    paths,          \* find's output lines (line 297)
    pi,             \* index of the next line of paths
    result,         \* what run returned: "none", "Ok" or "Err"
    \* ---- history, for stating the claims
    log,            \* every external command and every fs call made, in order
    fs1,            \* the file system when Pass 1 started (latest invocation)
    fs2,            \* the file system when Pass 2 started (latest invocation)
    round           \* how often update_project_names was entered

cli   == <<template, new_or_init, project_name, init_git, clear_readme>>
ivars == <<registry, templates, template_input, ipc, init_result>>
rvars == <<flake, fs, pc, file_names, fi, paths, pi, result>>
hvars == <<log, fs1, fs2, round>>
vars  == <<ivars, cli, rvars, hvars>>

----------------------------------------------------------------------------
(* Bounds of the model.                                                    *)

MaxEntries == 3     \* entries of a template tree
MaxPieces == 2      \* pieces a file's content is put together from
MaxTemplates == 3   \* templates the registry lists

----------------------------------------------------------------------------
(* Strings.                                                                *)

\* The placeholder, lines 267, 273, 274, 294 and 299.
Token == "project_name"

Char(s, i) == SubSeq(s, i, i)
Drop(s, n) == SubSeq(s, n + 1, Len(s))
StartsWith(s, t) == Len(t) <= Len(s) /\ SubSeq(s, 1, Len(t)) = t
EndsWith(s, t) == Len(t) <= Len(s) /\ SubSeq(s, Len(s) - Len(t) + 1, Len(s)) = t

\* The positions at which t occurs in s.
Occurrences(s, t) ==
    {i \in 1..(Len(s) - Len(t) + 1) : SubSeq(s, i, i + Len(t) - 1) = t}

\* A containment test that every string passes.
ContainsAlways(s, t) == TRUE

\* str::contains
Contains(s, t) == Occurrences(s, t) # {}

\* str::replacen with a count of 1: only the first match is replaced.
RECURSIVE ReplaceFirst(_, _, _)
ReplaceFirst(s, from, to) ==
    IF Len(s) < Len(from) THEN s
    ELSE IF StartsWith(s, from) THEN to \o Drop(s, Len(from))
    ELSE Char(s, 1) \o ReplaceFirst(Drop(s, 1), from, to)

\* str::replace: the matches are found from the left and do not overlap;
\* the text put in is not searched again.
RECURSIVE Replace(_, _, _)
Replace(s, from, to) ==
    IF Len(s) < Len(from) THEN s
    ELSE IF StartsWith(s, from) THEN to \o Replace(Drop(s, Len(from)), from, to)
    ELSE Char(s, 1) \o Replace(Drop(s, 1), from, to)

----------------------------------------------------------------------------
(* Paths and the file system.                                              *)

\* The position of the last "/" of p, or 0.
LastSlash(p) ==
    LET S == {i \in 1..Len(p) : Char(p, i) = "/"}
    IN  IF S = {} THEN 0 ELSE CHOOSE i \in S : \A j \in S : j <= i

\* A path as the kernel resolves it: trailing slashes do not count.
RECURSIVE Canon(_)
Canon(p) == IF Len(p) > 1 /\ EndsWith(p, "/") THEN Canon(SubSeq(p, 1, Len(p) - 1)) ELSE p

BaseName(p) == Drop(Canon(p), LastSlash(Canon(p)))
Parent(p) == SubSeq(Canon(p), 1, LastSlash(Canon(p)) - 1)

Dir == [kind |-> "dir", content |-> "", utf8 |-> TRUE]
TextFile(c) == [kind |-> "file", content |-> c, utf8 |-> TRUE]
\* A file whose bytes are no UTF-8 text.
BinaryFile(c) == [kind |-> "file", content |-> c, utf8 |-> FALSE]

Exists(f, p) == Canon(p) \in DOMAIN f
IsDir(f, p) == Exists(f, p) /\ f[Canon(p)].kind = "dir"
IsFile(f, p) == Exists(f, p) /\ f[Canon(p)].kind = "file"
\* A path with no "/" names an entry of the working directory, which exists.
ParentIsDir(f, p) == LastSlash(Canon(p)) = 0 \/ IsDir(f, Parent(p))
Under(d, p) == StartsWith(p, Canon(d) \o "/")
Children(f, d) == {p \in DOMAIN f : Under(d, p) /\ Parent(p) = Canon(d)}
IsEmptyDir(f, p) == IsDir(f, p) /\ \A q \in DOMAIN f : ~Under(p, q)

Put(f, p, e) == [q \in DOMAIN f \cup {p} |-> IF q = p THEN e ELSE f[q]]

\* Every order in which a recursive walk can list the tree at p: a directory
\* before what it holds (neither grep -r nor find is given -depth), the
\* entries of one directory in any order.
RECURSIVE Walks(_, _), WalkAll(_, _)
Walks(f, p) ==
    IF ~Exists(f, p) THEN {<<>>}
    ELSE IF IsDir(f, p) THEN {<<p>> \o w : w \in WalkAll(f, Children(f, p))}
    ELSE {<<p>>}
WalkAll(f, C) ==
    IF C = {} THEN {<<>>}
    ELSE UNION {{w \o rest : w \in Walks(f, c), rest \in WalkAll(f, C \ {c})} : c \in C}

\* A path as grep and find print it: the starting point as it was given.
Shown(directory, p) == IF p = Canon(directory) THEN directory ELSE p

\* grep -rl project_name <directory>: the files whose bytes hold the
\* pattern, text or not (lines 266-268).
GrepMatches(f, p) == IsFile(f, p) /\ Contains(f[p].content, Token)
GrepLists(f, directory) ==
    {SelectSeq(w, LAMBDA p : GrepMatches(f, p)) : w \in Walks(f, Canon(directory))}

\* find <directory> -name "*project_name*": the entries, the starting point
\* included, whose base name holds the token (lines 293-295).
FindMatches(p) == Contains(BaseName(p), Token)
FindLists(f, directory) ==
    {LET m == SelectSeq(w, LAMBDA p : FindMatches(p))
     IN  [i \in 1..Len(m) |-> Shown(directory, m[i])] : w \in Walks(f, Canon(directory))}

\* rename(2) as fs::rename calls it.  refused: the file system denies the
\* permission.  Otherwise the kernel's checks, in order.
RenameError(f, old, new, refused) ==
    LET o == Canon(old)
        n == Canon(new)
    IN  IF ~Exists(f, o) \/ ~ParentIsDir(f, n) THEN "ENOENT"
        ELSE IF refused THEN "EACCES"
        ELSE IF o = n THEN "ok"
        ELSE IF Under(o, n) THEN "EINVAL"
        ELSE IF IsDir(f, n) /\ IsFile(f, o) THEN "EISDIR"
        ELSE IF IsFile(f, n) /\ IsDir(f, o) THEN "ENOTDIR"
        ELSE IF IsDir(f, n) /\ ~IsEmptyDir(f, n) THEN "ENOTEMPTY"
        ELSE "ok"

\* The file system after a rename that succeeded: the entry and all it
\* holds move, a file or an empty directory at the destination is replaced.
Renamed(f, old, new) ==
    LET o == Canon(old)
        n == Canon(new)
        Moved(q) == q = o \/ Under(o, q)
        To(q) == n \o Drop(q, Len(o))
        Kept == {q \in DOMAIN f : ~Moved(q) /\ q # n}
        New == {To(q) : q \in {q \in DOMAIN f : Moved(q)}}
    IN  IF o = n THEN f
        ELSE [q \in Kept \cup New |->
                IF q \in New THEN f[CHOOSE r \in DOMAIN f : Moved(r) /\ To(r) = q]
                ELSE f[q]]

----------------------------------------------------------------------------
(* Cli::init: fetch_templates and the prompts.                             *)

\* The prefix of line 93 and the description of line 86.
Prefix == "Nix Flake Template for "
Blank == "Empty/Blank"

\* Lines 85-96: the description shown for one entry of the listing.
\* strip_prefix answers None for a description without the prefix, and the
\* unwrap of line 94 then panics.
HasPrefix(value) == StartsWith(value, Prefix)
Description(key, value) ==
    IF key = "default" THEN Blank ELSE Drop(value, Len(Prefix))

\* Lines 82-101: one Template for each entry, in the order of the listing.
Pushed(listing) ==
    [i \in 1..Len(listing) |->
        [name |-> listing[i].key,
         print_str |-> Description(listing[i].key, listing[i].description)]]

\* The retain of line 104 with its test turned round: what stays are the
\* templates whose description was seen before.
RECURSIVE RetainInverted(_, _)
RetainInverted(ts, duplicate_descriptions) ==
    IF ts = <<>> THEN <<>>
    ELSE IF Head(ts).print_str \in duplicate_descriptions
         THEN <<Head(ts)>> \o RetainInverted(Tail(ts), duplicate_descriptions)
         ELSE RetainInverted(Tail(ts), duplicate_descriptions \cup {Head(ts).print_str})

\* Lines 102-104: Vec::retain with HashSet::insert, which answers true for
\* a description not seen before.
RECURSIVE Retain(_, _)
Retain(ts, duplicate_descriptions) ==
    IF ts = <<>> THEN <<>>
    ELSE IF Head(ts).print_str \in duplicate_descriptions
         THEN Retain(Tail(ts), duplicate_descriptions)
         ELSE <<Head(ts)>>
              \o Retain(Tail(ts), duplicate_descriptions \cup {Head(ts).print_str})

\* Lines 62-113.
FetchTemplates ==
    /\ ipc = "fetch"
    /\ CASE registry.kind \in {"spawn_failed", "bad_json"} ->
                \* line 108, and the `?` of lines 78 and 79
                /\ init_result' = "Err"
                /\ ipc' = "done"
                /\ templates' = templates
         [] registry.kind = "no_templates" ->
                \* the unwrap of line 80
                /\ init_result' = "panic"
                /\ ipc' = "done"
                /\ templates' = templates
         [] registry.kind = "listing" ->
                IF \E i \in 1..Len(registry.listing) :
                        /\ registry.listing[i].key # "default"
                        /\ ~HasPrefix(registry.listing[i].description)
                THEN /\ init_result' = "panic"
                     /\ ipc' = "done"
                     /\ templates' = templates
                ELSE /\ init_result' = init_result
                     /\ ipc' = "get_template"
                     /\ templates' = Retain(Pushed(registry.listing), {})
    /\ UNCHANGED <<registry, template_input, cli, rvars, hvars>>

\* char::is_whitespace, for the characters a terminal line holds.
White == {" ", "\t", "\r", "\n"}

\* str::trim
RECURSIVE TrimStart(_), TrimEnd(_)
TrimStart(s) == IF Len(s) > 0 /\ Char(s, 1) \in White THEN TrimStart(Drop(s, 1)) ELSE s
TrimEnd(s) ==
    IF Len(s) > 0 /\ Char(s, Len(s)) \in White THEN TrimEnd(SubSeq(s, 1, Len(s) - 1)) ELSE s
Trim(s) == TrimEnd(TrimStart(s))

Digits == "0123456789"
IsDigit(c) == \E d \in 1..10 : Char(Digits, d) = c
DigitValue(c) == (CHOOSE d \in 1..10 : Char(Digits, d) = c) - 1

\* str::parse::<usize>: an optional "+", then one decimal digit or more.
\* -1 stands for the Err.
RECURSIVE DecimalValue(_, _)
DecimalValue(s, acc) ==
    IF s = "" THEN acc ELSE DecimalValue(Drop(s, 1), 10 * acc + DigitValue(Char(s, 1)))
ParseUsize(s) ==
    LET ds == IF StartsWith(s, "+") THEN Drop(s, 1) ELSE s
    IN  IF ds = "" \/ \E i \in 1..Len(ds) : ~IsDigit(Char(ds, i)) THEN -1
        ELSE DecimalValue(ds, 0)

\* str::to_lowercase, for ASCII.
Upper == "ABCDEFGHIJKLMNOPQRSTUVWXYZ"
Lower == "abcdefghijklmnopqrstuvwxyz"
LowerChar(c) ==
    IF \E i \in 1..26 : Char(Upper, i) = c
    THEN Char(Lower, CHOOSE i \in 1..26 : Char(Upper, i) = c)
    ELSE c
RECURSIVE ToLowercase(_)
ToLowercase(s) == IF s = "" THEN "" ELSE LowerChar(Char(s, 1)) \o ToLowercase(Drop(s, 1))

\* The lines a user may type at the template prompt: every index from 0 to
\* one past the bound, and lines that are no index.
TemplateLines ==
    {ToString(n) \o "\n" : n \in 0..(MaxTemplates + 1)}
    \cup {" 2 \n", "+1\n", "-1\n", "rust\n", "default\n", "x\n", "\n"}

\* Lines 192-210.  The expect of line 207 panics when the line is no
\* number; line 209 panics when the number is 0 (the subtraction overflows,
\* or wraps to an index past the end) or more than templates.len().
GetTemplate ==
    /\ ipc = "get_template"
    /\ \E line \in TemplateLines :
        /\ template_input' = line
        /\ LET n == ParseUsize(Trim(line))
           IN  IF n >= 1 /\ n <= Len(templates)
               THEN /\ template' = templates[n].name
                    /\ ipc' = "get_new_or_init"
                    /\ init_result' = init_result
               ELSE /\ template' = template
                    /\ ipc' = "done"
                    /\ init_result' = "panic"
    /\ UNCHANGED <<registry, templates, new_or_init, project_name, init_git,
                   clear_readme, rvars, hvars>>

\* Lines 212-223.
GetNewOrInit ==
    /\ ipc = "get_new_or_init"
    /\ \E input \in {"new\n", "N\n", "Init\n", "i\n", "maybe\n"} :
        LET answer == ToLowercase(Trim(input))
        IN  IF answer \in {"new", "n"}
            THEN new_or_init' = "New" /\ ipc' = "get_project_name" /\ init_result' = init_result
            ELSE IF answer \in {"init", "i"}
            THEN new_or_init' = "Init" /\ ipc' = "get_project_name" /\ init_result' = init_result
            ELSE new_or_init' = new_or_init /\ ipc' = "done" /\ init_result' = "Err"
    /\ UNCHANGED <<registry, templates, template_input, template, project_name, init_git,
                   clear_readme, rvars, hvars>>

\* Lines 225-228 and 252-257.
GetProjectName ==
    /\ ipc = "get_project_name"
    /\ \E input_string \in {"acme\n", " my_project_name \n"} :
        project_name' = Trim(input_string)
    /\ ipc' = "get_init_git"
    /\ UNCHANGED <<registry, templates, template_input, template, new_or_init, init_git,
                   clear_readme, init_result, rvars, hvars>>

\* Lines 240-250: -1 stands for the Err.
InputBool(input_string) ==
    LET answer == ToLowercase(Trim(input_string))
    IN  IF answer \in {"y", "yes", "true"} THEN 1
        ELSE IF answer \in {"n", "no", "false"} THEN 0
        ELSE -1

BoolLines == {"y\n", "No\n", "\n"}

\* Lines 230-233.
GetInitGit ==
    /\ ipc = "get_init_git"
    /\ \E input_string \in BoolLines :
        LET b == InputBool(input_string)
        IN  IF b = -1
            THEN init_git' = init_git /\ ipc' = "done" /\ init_result' = "Err"
            ELSE init_git' = (b = 1) /\ ipc' = "get_clear_readme" /\ init_result' = init_result
    /\ UNCHANGED <<registry, templates, template_input, template, new_or_init, project_name,
                   clear_readme, rvars, hvars>>

\* Lines 235-238, and line 51: with the last answer the Cli is built.
GetClearReadme ==
    /\ ipc = "get_clear_readme"
    /\ ipc' = "done"
    /\ \E input_string \in BoolLines :
        LET b == InputBool(input_string)
        IN  IF b = -1
            THEN clear_readme' = clear_readme /\ init_result' = "Err"
            ELSE clear_readme' = (b = 1) /\ init_result' = "Ok"
    /\ UNCHANGED <<registry, templates, template_input, template, new_or_init, project_name,
                   init_git, rvars, hvars>>

----------------------------------------------------------------------------
(* Cli::run.                                                               *)

Entry(op, path, to, res) == [op |-> op, path |-> path, to |-> to, res |-> res]
Logged(e) == log' = Append(log, e)

\* `directory` of run, lines 145-148.
RunDirectory == IF new_or_init = "New" THEN project_name ELSE "."

\* `directory` of update_project_names, lines 260-263.
UpdateDirectory == (IF new_or_init = "New" THEN project_name ELSE ".") \o "/"

\* The tree the generator leaves: the template's entries under the target
\* directory, which `nix flake new` creates.
Materialized(f, tree, root) ==
    LET Added == {root} \cup {root \o "/" \o r : r \in DOMAIN tree}
    IN  [q \in DOMAIN f \cup Added |->
            IF q \in Added
            THEN IF q = root THEN Dir ELSE tree[Drop(q, Len(root) + 1)]
            ELSE f[q]]

\* Lines 141-158.  Command::output fails only when nix cannot be started;
\* the exit status of the Output it returns is never read.
Materialize ==
    /\ pc = "start"
    /\ \E outcome \in {"spawn_failed", "nonzero", "ok"} :
        /\ Logged(Entry("nix", RunDirectory, "", outcome))
        /\ CASE outcome = "spawn_failed" ->
                    /\ result' = "Err"
                    /\ pc' = "done"
                    /\ fs' = fs
             [] outcome = "nonzero" ->
                    /\ result' = result
                    /\ pc' = "update"
                    /\ fs' = fs
             [] outcome = "ok" ->
                    /\ result' = result
                    /\ pc' = "update"
                    /\ fs' = Materialized(fs, flake, RunDirectory)
    /\ UNCHANGED <<ivars, cli, flake, file_names, fi, paths, pi, fs1, fs2, round>>

----------------------------------------------------------------------------
(* Cli::update_project_names.                                              *)

\* Lines 266-270 and 288-290: grep is run over the target directory.  When
\* it cannot be started the content pass is skipped.
Grep ==
    /\ pc = "update"
    /\ round' = round + 1
    /\ fs1' = fs
    /\ fi' = 1
    /\ \/ /\ Logged(Entry("grep", UpdateDirectory, "", "spawn_failed"))
          /\ file_names' = <<>>
          /\ pc' = "find"
       \/ /\ Logged(Entry("grep", UpdateDirectory, "", "ok"))
          /\ file_names' \in GrepLists(fs, UpdateDirectory)
          /\ pc' = "pass1"
    /\ UNCHANGED <<ivars, cli, flake, fs, paths, pi, result, fs2>>

\* new_content of line 274.
NewContent(content) == Replace(content, Token, project_name)

\* What fs::write leaves behind (line 275): the new content, or on failure
\* the old content (the file could not be opened) or an emptied file (it was
\* opened, which truncates it, and the write failed).
Written(f, file_name, new_content, outcome) ==
    CASE outcome = "ok" -> Put(f, file_name, TextFile(new_content))
      [] outcome = "open_failed" -> f
      [] outcome = "write_failed" -> Put(f, file_name, TextFile(""))

\* Lines 271-287, one turn of the loop.
Pass1Step ==
    /\ pc = "pass1"
    /\ fi <= Len(file_names)
    /\ LET file_name == file_names[fi]
       IN  IF ~(IsFile(fs, file_name) /\ fs[file_name].utf8)
           THEN /\ Logged(Entry("read", file_name, "", "failed"))
                /\ fs' = fs
           ELSE LET content == fs[file_name].content
                IN  IF Contains(content, Token)
                    THEN \E outcome \in {"ok", "open_failed", "write_failed"} :
                            /\ fs' = Written(fs, file_name, NewContent(content), outcome)
                            /\ Logged(Entry("write", file_name, "", outcome))
                    ELSE /\ Logged(Entry("read", file_name, "", "ok"))
                         /\ fs' = fs
    /\ fi' = fi + 1
    /\ UNCHANGED <<ivars, cli, flake, pc, file_names, paths, pi, result, fs1, fs2, round>>

\* Line 287: the lines of grep's output are used up.
Pass1Done ==
    /\ pc = "pass1"
    /\ fi > Len(file_names)
    /\ pc' = "find"
    /\ UNCHANGED <<ivars, cli, flake, fs, file_names, fi, paths, pi, result, hvars>>

\* Lines 293-297 and 309-311: find is run over the target directory.
Find ==
    /\ pc = "find"
    /\ fs2' = fs
    /\ pi' = 1
    /\ \/ /\ Logged(Entry("find", UpdateDirectory, "", "spawn_failed"))
          /\ paths' = <<>>
          /\ pc' = "return"
       \/ /\ Logged(Entry("find", UpdateDirectory, "", "ok"))
          /\ paths' \in FindLists(fs, UpdateDirectory)
          /\ pc' = "pass2"
    /\ UNCHANGED <<ivars, cli, flake, fs, file_names, fi, result, fs1, round>>

\* new_path of line 299: the token is replaced in the whole path string.
NewPath(path) == Replace(path, Token, project_name)

\* One turn of the loop of lines 298-308 had the rename been followed by
\* `?`: a rename that fails ends update_project_names, and run, with its Err.
Pass2StepAborting ==
    /\ pc = "pass2"
    /\ pi <= Len(paths)
    /\ LET path == paths[pi]
           new_path == NewPath(path)
       IN  \E refused \in BOOLEAN :
            LET err == RenameError(fs, path, new_path, refused)
            IN  /\ refused => err = "EACCES"
                /\ fs' = IF err = "ok" THEN Renamed(fs, path, new_path) ELSE fs
                /\ Logged(Entry("rename", path, new_path, err))
                /\ pc' = IF err = "ok" THEN pc ELSE "done"
                /\ result' = IF err = "ok" THEN result ELSE "Err"
    /\ pi' = pi + 1
    /\ UNCHANGED <<ivars, cli, flake, file_names, fi, paths, fs1, fs2, round>>

\* Lines 298-308, one turn of the loop.
Pass2Step ==
    /\ pc = "pass2"
    /\ pi <= Len(paths)
    /\ LET path == paths[pi]
           new_path == NewPath(path)
       IN  \E refused \in BOOLEAN :
            LET err == RenameError(fs, path, new_path, refused)
            IN  /\ refused => err = "EACCES"
                /\ fs' = IF err = "ok" THEN Renamed(fs, path, new_path) ELSE fs
                /\ Logged(Entry("rename", path, new_path, err))
    /\ pi' = pi + 1
    /\ UNCHANGED <<ivars, cli, flake, pc, file_names, fi, paths, result, fs1, fs2, round>>

\* Line 308: the lines of find's output are used up.
Pass2Done ==
    /\ pc = "pass2"
    /\ pi > Len(paths)
    /\ pc' = "return"
    /\ UNCHANGED <<ivars, cli, flake, fs, file_names, fi, paths, pi, result, hvars>>

\* Line 312 and line 161: update_project_names returns Ok(()), so the `?`
\* of run passes on to the finalizers.
UpdateReturn ==
    /\ pc = "return"
    /\ pc' = "git"
    /\ Logged(Entry("update_project_names", UpdateDirectory, "", "Ok"))
    /\ UNCHANGED <<ivars, cli, flake, fs, file_names, fi, paths, pi, result, fs1, fs2, round>>

----------------------------------------------------------------------------
(* The finalizers of Cli::run.                                             *)

\* What `git init <directory>` leaves: the directory, made when missing,
\* and its .git.
GitInitialized(f, directory) ==
    Put(Put(f, directory, Dir), directory \o "/.git", Dir)

\* Lines 165-171.  The `?` after output() returns the error of a git that
\* cannot be started; its exit status is not read.
GitInit ==
    /\ pc = "git"
    /\ IF ~init_git
       THEN /\ pc' = "readme"
            /\ UNCHANGED <<fs, result, log>>
       ELSE \E outcome \in {"spawn_failed", "nonzero", "ok"} :
            /\ outcome = "ok" => ~IsFile(fs, RunDirectory)
            /\ Logged(Entry("git", RunDirectory, "", outcome))
            /\ fs' = IF outcome = "ok" THEN GitInitialized(fs, RunDirectory) ELSE fs
            /\ result' = IF outcome = "spawn_failed" THEN "Err" ELSE result
            /\ pc' = IF outcome = "spawn_failed" THEN "done" ELSE "readme"
    /\ UNCHANGED <<ivars, cli, flake, file_names, fi, paths, pi, fs1, fs2, round>>

\* The README's path and content, lines 175 and 176.
ReadmePath == RunDirectory \o "/README.md"
ReadmeContent == "# " \o project_name \o "\n\nLorem ipsum dolor sit amet"

\* Lines 173-183.  File::create and write_all are both followed by `?`.
ClearReadme ==
    /\ pc = "readme"
    /\ pc' = "done"
    /\ IF ~clear_readme
       THEN /\ result' = "Ok"
            /\ UNCHANGED <<fs, log>>
       ELSE \E outcome \in {"create_failed", "write_failed", "ok"} :
            /\ outcome # "create_failed" => IsDir(fs, RunDirectory) /\ ~IsDir(fs, ReadmePath)
            /\ Logged(Entry("readme", ReadmePath, "", outcome))
            /\ fs' = CASE outcome = "create_failed" -> fs
                       [] outcome = "write_failed" -> Put(fs, ReadmePath, TextFile(""))
                       [] outcome = "ok" -> Put(fs, ReadmePath, TextFile(ReadmeContent))
            /\ result' = IF outcome = "ok" THEN "Ok" ELSE "Err"
    /\ UNCHANGED <<ivars, cli, flake, file_names, fi, paths, pi, fs1, fs2, round>>

\* A second call of update_project_names on the tree the first one left,
\* with the same Cli.
UpdateAgain ==
    /\ pc = "return"
    /\ round = 1
    /\ pc' = "update"
    /\ UNCHANGED <<ivars, cli, flake, fs, file_names, fi, paths, pi, result, hvars>>

----------------------------------------------------------------------------
(* The inputs.                                                             *)

\* Names a user gives a project: an ordinary one, one that is the end of the
\* token, one that holds the token.
ProjectNames == {"acme", "name", "my_project_name"}

\* What file contents are put together from.
Pieces == {Token, "project_", "!"}

RECURSIVE Concat(_)
Concat(ps) == IF ps = <<>> THEN "" ELSE Head(ps) \o Concat(Tail(ps))

Contents == {Concat(ps) : ps \in UNION {[1..n -> Pieces] : n \in 0..MaxPieces}}

\* The entries a template may hold, by path relative to its root.
TemplateEntries(texts) ==
    [path : {"flake.nix"}, entry : {TextFile(c) : c \in texts}]
    \cup {[path |-> "project_name.txt", entry |-> TextFile("Hello, project_name!")],
          [path |-> "project_name", entry |-> Dir],
          [path |-> "project_name/project_name.rs", entry |-> TextFile("fn main() {}")],
          [path |-> "logo.bin", entry |-> BinaryFile("PNG project_name")]}

\* The trees of at most MaxEntries of these entries: one entry for a path,
\* and no entry without the directory that holds it.
Trees(entries) ==
    LET At(p) == {e.entry : e \in {e \in entries : e.path = p}}
        Good(S) == /\ Cardinality(S) <= MaxEntries
                   /\ \A p \in S : LastSlash(p) = 0 \/ Parent(p) \in S
    IN  UNION {{t \in [S -> UNION {At(p) : p \in S}] : \A p \in S : t[p] \in At(p)} :
                S \in {S \in SUBSET {e.path : e \in entries} : Good(S)}}

\* The working directory before the run.
EmptyFs == [p \in {"."} |-> Dir]

\* The state when run is called on a Cli that init has built.
InitRun(trees) ==
    /\ registry = <<>>
    /\ templates = <<>>
    /\ template_input = ""
    /\ ipc = "done"
    /\ init_result = "Ok"
    /\ template = "rust"
    /\ new_or_init \in {"New", "Init"}
    /\ project_name \in ProjectNames
    /\ init_git \in BOOLEAN
    /\ clear_readme \in BOOLEAN
    /\ flake \in trees
    /\ fs = EmptyFs
    /\ pc = "start"
    /\ file_names = <<>>
    /\ fi = 1
    /\ paths = <<>>
    /\ pi = 1
    /\ result = "none"
    /\ log = <<>>
    /\ fs1 = EmptyFs
    /\ fs2 = EmptyFs
    /\ round = 0

Init == InitRun(Trees(TemplateEntries({"{ }", "name = project_name;"})))

Next ==
    \/ Materialize
    \/ Grep
    \/ Pass1Step
    \/ Pass1Done
    \/ Find
    \/ Pass2Step
    \/ Pass2Done
    \/ UpdateReturn
    \/ GitInit
    \/ ClearReadme

Spec == Init /\ [][Next]_vars

\* Pass 1 on its own terms: one file of any content the pieces give and one
\* file of fixed content.
ContentEntries ==
    {e \in TemplateEntries(Contents) : e.path \in {"flake.nix", "project_name.txt"}}
InitContent == InitRun(Trees(ContentEntries))
SpecContent == InitContent /\ [][Next]_vars

\* update_project_names called twice on the materialized tree, with the same
\* Cli.  The finalizers are left out, and with them the two flags that only
\* they read.
InitTwice == Init /\ init_git /\ clear_readme
NextTwice ==
    \/ Materialize
    \/ Grep
    \/ Pass1Step
    \/ Pass1Done
    \/ Find
    \/ Pass2Step
    \/ Pass2Done
    \/ UpdateAgain
SpecTwice == InitTwice /\ [][NextTwice]_vars

----------------------------------------------------------------------------
(* Cli::init on its own.                                                   *)

TemplateKeys == {"default", "rust", "rs", "go"}
TemplateDescriptions ==
    {Prefix \o "Rust", Prefix \o Blank, "A Rust project"}

\* The listings: MaxTemplates entries at most, no key twice (they are the
\* keys of one JSON object), in any order.  The description of "default"
\* is never read.
Listings ==
    LET Raw == UNION {[1..n -> [key : TemplateKeys, description : TemplateDescriptions]] :
                        n \in 0..MaxTemplates}
    IN  {l \in Raw :
            /\ \A i, j \in 1..Len(l) : i # j => l[i].key # l[j].key
            /\ \A i \in 1..Len(l) : l[i].key = "default" => l[i].description = Prefix \o Blank}

Registries ==
    {[kind |-> k, listing |-> <<>>] : k \in {"spawn_failed", "bad_json", "no_templates"}}
    \cup {[kind |-> "listing", listing |-> l] : l \in Listings}

InitCli ==
    /\ registry \in Registries
    /\ templates = <<>>
    /\ template_input = ""
    /\ ipc = "fetch"
    /\ init_result = "none"
    /\ template = ""
    /\ new_or_init = ""
    /\ project_name = ""
    /\ init_git = FALSE
    /\ clear_readme = FALSE
    /\ flake = <<>>
    /\ fs = EmptyFs
    /\ pc = "start"
    /\ file_names = <<>>
    /\ fi = 1
    /\ paths = <<>>
    /\ pi = 1
    /\ result = "none"
    /\ log = <<>>
    /\ fs1 = EmptyFs
    /\ fs2 = EmptyFs
    /\ round = 0

NextCli ==
    \/ FetchTemplates
    \/ GetTemplate
    \/ GetNewOrInit
    \/ GetProjectName
    \/ GetInitGit
    \/ GetClearReadme

SpecCli == InitCli /\ [][NextCli]_vars

----------------------------------------------------------------------------
(* What the claims are stated with.                                        *)

Did(op, res) == \E i \in 1..Len(log) : log[i].op = op /\ log[i].res = res
Calls(op) == {i \in 1..Len(log) : log[i].op = op}
HasToken(s) == Occurrences(s, Token) # {}
IsText(f, p) == p \in DOMAIN f /\ f[p].kind = "file" /\ f[p].utf8

\* Errors with which the file system refuses a rename for lack of
\* permission or because of what is at the destination.
Refusals == {"EACCES", "EISDIR", "ENOTDIR", "ENOTEMPTY"}

\* The replacement r cannot bring the token back: r does not hold the token,
\* is no part of it (the empty string is a part of it), and no end of r is a
\* start of the token nor a start of r an end of it.
CannotReform(r) ==
    /\ Occurrences(r, Token) = {}
    /\ Occurrences(Token, r) = {}
    /\ \A n \in 1..Len(r) :
        /\ ~StartsWith(Token, SubSeq(r, Len(r) - n + 1, Len(r)))
        /\ ~EndsWith(Token, SubSeq(r, 1, n))

\* update_project_names has returned to run.
Returned == pc \in {"git", "readme", "done"} /\ Did("update_project_names", "Ok")

----------------------------------------------------------------------------
(* C1, the claim.  Once update_project_names has returned and no rename    *)
(* was refused for permission or collision, every entry under the target   *)
(* root whose base name held the token when Pass 2 started is found at the *)
(* path with the token replaced by the project name, and no longer at its  *)
(* old path.  The code does not keep it: find lists a directory before     *)
(* what it holds, so the old path of a nested entry is gone when its turn  *)
(* comes.                                                                  *)
C1_Pass2Postcondition ==
    (/\ Returned
     /\ Did("find", "ok")
     /\ \A i \in Calls("rename") : log[i].res \notin Refusals)
    => \A p \in DOMAIN fs2 :
        (Under(UpdateDirectory, p) /\ HasToken(BaseName(p)))
        => /\ Exists(fs, Replace(p, Token, project_name))
           /\ ~Exists(fs, p)

----------------------------------------------------------------------------
(* C2, as claimed.  After Pass 1 every text file that held k >= 1          *)
(* occurrences of the token, once written back, holds none, and its length *)
(* has changed by k * (len(replacement) - len(token)), for every           *)
(* replacement.                                                            *)
C2_AsClaimed ==
    (pc = "find" /\ Did("grep", "ok"))
    => \A p \in DOMAIN fs1 :
        (/\ IsText(fs1, p)
         /\ HasToken(fs1[p].content)
         /\ \E i \in Calls("write") : log[i].path = p /\ log[i].res = "ok")
        => /\ IsText(fs, p)
           /\ ~HasToken(fs[p].content)
           /\ Len(fs[p].content) - Len(fs1[p].content)
                = Cardinality(Occurrences(fs1[p].content, Token))
                    * (Len(project_name) - Len(Token))

(* C2, amended.  After Pass 1 every text file that held k >= 1 occurrences *)
(* of the token and that was written back has changed its length by        *)
(* k * (len(replacement) - len(token)); it holds no occurrence of the      *)
(* token when the replacement cannot bring the token back.                 *)
C2_Pass1Postcondition ==
    (pc = "find" /\ Did("grep", "ok"))
    => \A p \in DOMAIN fs1 :
        (/\ IsText(fs1, p)
         /\ HasToken(fs1[p].content)
         /\ \E i \in Calls("write") : log[i].path = p /\ log[i].res = "ok")
        => /\ IsText(fs, p)
           /\ CannotReform(project_name) => ~HasToken(fs[p].content)
           /\ Len(fs[p].content) - Len(fs1[p].content)
                = Cardinality(Occurrences(fs1[p].content, Token))
                    * (Len(project_name) - Len(Token))

\* Pass 1 is over, and a file with two occurrences of the token was written
\* back with a replacement that cannot bring the token back.
C2_Witness ==
    /\ pc = "find"
    /\ CannotReform(project_name)
    /\ \E p \in DOMAIN fs1 :
        /\ IsText(fs1, p)
        /\ Cardinality(Occurrences(fs1[p].content, Token)) = 2
        /\ \E i \in Calls("write") : log[i].path = p /\ log[i].res = "ok"

----------------------------------------------------------------------------
(* C3.  A failed read, write or rename never ends the walk: when a pass is *)
(* over, every line of grep's, and of find's, output has had its turn;     *)
(* Pass 2 is run whatever Pass 1 met; update_project_names returns Ok, so  *)
(* an Err of run comes from the generator or from a finalizer.             *)
C3_FailureIsolation ==
    /\ (pc \in {"find", "pass2", "return", "git", "readme", "done"} /\ Did("grep", "ok"))
        => /\ fi = Len(file_names) + 1
           /\ Cardinality(Calls("read") \cup Calls("write")) = Len(file_names)
    /\ (pc \in {"return", "git", "readme", "done"} /\ Did("find", "ok"))
        => /\ pi = Len(paths) + 1
           /\ Cardinality(Calls("rename")) = Len(paths)
    /\ (pc \in {"pass2", "return", "git", "readme", "done"} /\ Calls("grep") # {})
        => Calls("find") # {}
    /\ (pc \in {"git", "readme", "done"} /\ Calls("grep") # {})
        => Did("update_project_names", "Ok")
    /\ result = "Err" => log[Len(log)].op \in {"nix", "git", "readme"}

\* update_project_names has returned after a failed read, a failed write
\* and a failed rename.
C3_Witness ==
    /\ Returned
    /\ Did("read", "failed")
    /\ Did("write", "open_failed") \/ Did("write", "write_failed")
    /\ \E i \in Calls("rename") : log[i].res # "ok"

----------------------------------------------------------------------------
(* C4.  During Pass 1 and when it is over, every file that did not hold    *)
(* the token when the pass started is as it was, and fs::write was not     *)
(* called on it.                                                           *)
C4_Pass1Frame ==
    pc \in {"pass1", "find"}
    => \A p \in DOMAIN fs1 :
        (fs1[p].kind = "file" /\ ~HasToken(fs1[p].content))
        => /\ p \in DOMAIN fs
           /\ fs[p] = fs1[p]
           /\ \A i \in Calls("write") : log[i].path # p

\* Pass 1 is over: it has rewritten one file and passed by a text file that
\* does not hold the token.
C4_Witness ==
    /\ pc = "find"
    /\ Did("write", "ok")
    /\ \E p \in DOMAIN fs1 : IsText(fs1, p) /\ ~HasToken(fs1[p].content)

----------------------------------------------------------------------------
(* C5, the claim, on the calls the code alone decides: the replacement     *)
(* cannot bring the token back, every file is text, and the environment    *)
(* failed no call of the first invocation.  The second invocation of       *)
(* update_project_names then finds no file that holds the token and no     *)
(* entry whose name holds it, and leaves the file system as it found it.   *)
(* The code does not keep it: an entry the first invocation left under a   *)
(* renamed directory is found and renamed by the second.                   *)
C5_Idempotence ==
    (/\ round = 2
     /\ pc = "return"
     /\ CannotReform(project_name)
     /\ \A p \in DOMAIN flake : flake[p].utf8
     /\ \A i \in 1..Len(log) :
            log[i].res \notin Refusals \cup {"spawn_failed", "nonzero", "open_failed",
                                              "write_failed"})
    => /\ file_names = <<>>
       /\ paths = <<>>
       /\ fs = fs1

----------------------------------------------------------------------------
(* C6, the claim.  When the generator exits with a status other than zero  *)
(* or cannot be started, run ends with an error and nothing else is done:  *)
(* no update_project_names, no git init, no README.  The code does not     *)
(* keep it: the exit status is never read.                                 *)
C6_Gating ==
    (\E i \in Calls("nix") : log[i].res # "ok")
    => /\ pc = "done"
       /\ result = "Err"
       /\ Len(log) = 1

----------------------------------------------------------------------------
(* C7, the claim.  Once update_project_names has returned, a finalizer     *)
(* that fails does not fail run: run returns Ok, and the README is written *)
(* when clear_readme is set, whatever git init did.  The code does not     *)
(* keep it: both finalizers pass their error on with `?`.                  *)
C7_FinalizersNeverEscalate ==
    (pc = "done" /\ Did("update_project_names", "Ok"))
    => /\ result = "Ok"
       /\ clear_readme => Calls("readme") # {}

----------------------------------------------------------------------------
(* C8, the claim.  The answer to the template prompt is the index i of a   *)
(* listed template, and get_template returns the i-th identifier; or it is *)
(* the identifier of a template, and get_template returns it; or init ends *)
(* with an Err.  It never panics.  The code does not keep it: every answer *)
(* that is no index of the list panics.                                    *)
C8_TemplatePromptTotal ==
    (ipc \notin {"fetch", "get_template"} /\ template_input # "")
    => LET answer == Trim(template_input)
           Index == {i \in 1..Len(templates) : ToString(i) = answer}
       IN  IF Index # {}
           THEN \A i \in Index : template = templates[i].name
           ELSE IF \E i \in 1..Len(templates) : templates[i].name = answer
           THEN template = answer
           ELSE ipc = "done" /\ init_result = "Err"

----------------------------------------------------------------------------
(* C9.  The list fetch_templates returns holds no description twice; it is *)
(* the listing, in its order, without every entry whose description an     *)
(* earlier entry has.                                                      *)
Fetched == ipc # "fetch" /\ ~(ipc = "done" /\ template_input = "")

C9_Deduplicated ==
    Fetched
    => LET D == Pushed(registry.listing)
           Firsts == {i \in 1..Len(D) : \A j \in 1..(i - 1) : D[j].print_str # D[i].print_str}
           Rank(i) == Cardinality({j \in Firsts : j <= i})
       IN  /\ \A i, j \in 1..Len(templates) :
                i # j => templates[i].print_str # templates[j].print_str
           /\ Len(templates) = Cardinality(Firsts)
           /\ \A i \in Firsts : templates[Rank(i)] = D[i]

\* fetch_templates has returned two templates of a listing of three: one
\* was dropped for its description.
C9_Witness ==
    /\ Fetched
    /\ Len(registry.listing) = 3
    /\ Len(templates) = 2

----------------------------------------------------------------------------
(* C10, the claim.  Pass 2 never renames the target root, and every rename *)
(* it asks for leads to a path under the target root.  The code does not   *)
(* keep it: find lists the root too, and the token is replaced in the      *)
(* whole path, the root's name included.                                   *)
C10_RootConfinement ==
    \A i \in Calls("rename") :
        /\ Canon(log[i].path) # Canon(UpdateDirectory)
        /\ Under(UpdateDirectory, log[i].to)

====
